---- MODULE Spec2Model ----
(***************************************************************************)
(* Edmonds-Karp maximum flow (task1/modules/edmonds_karp.py) and the       *)
(* logistics network analysis built on it (task1.py,                       *)
(* task1/modules/logistics_network.py).                                    *)
(*                                                                         *)
(* A matrix is a function [0..n-1 -> [0..n-1 -> Int]], as the Python list  *)
(* of lists indexed from 0.                                                *)
(***************************************************************************)
EXTENDS Integers, Sequences, FiniteSets, TLC

(* ---- bounds of the explored input space ---- *)
MaxNodes == 3
MaxEdges == 3
MaxCap == 2
LiveMaxEdges == 1
MonoMaxEdges == 1
MaxIncrease == 1

VARIABLES
    capacity_matrix,  \* argument of edmonds_karp
    source,           \* argument of edmonds_karp
    sink,             \* argument of edmonds_karp
    flow_matrix,      \* edmonds_karp local
    parent,           \* edmonds_karp local, written by bfs
    max_flow,         \* edmonds_karp local
    path_history,     \* edmonds_karp local
    path_flow,        \* edmonds_karp local (loop body)
    path,             \* edmonds_karp local (loop body)
    current_node,     \* edmonds_karp local (loop body)
    pc,               \* solver state: SEARCHING, AUGMENTING, DONE
    stage,            \* position inside the loop body while AUGMENTING
    baseline,         \* the result of an earlier call on a smaller capacity
    main_pc,          \* position of main() in task1.py
    main_i,           \* position of the for loop main() is in
    extended_capacity,     \* main local
    original_flow_matrix,  \* main local
    analysis               \* the dictionary analyze_network builds

ekVars == <<capacity_matrix, source, sink, flow_matrix, parent, max_flow,
            path_history, path_flow, path, current_node, pc, stage>>

mainVars == <<main_pc, main_i, extended_capacity, original_flow_matrix,
              analysis>>

callerVars == <<baseline, mainVars>>

vars == <<ekVars, callerVars>>

(* ---- helpers on matrices ---- *)

\* len(capacity_matrix)
NumNodes(m) == Cardinality(DOMAIN m)

\* range(num_nodes)
Range(n) == 0 .. (n - 1)

\* [[0] * num_nodes for _ in range(num_nodes)]
ZeroMatrix(n) == [i \in Range(n) |-> [j \in Range(n) |-> 0]]

\* sum(f[x] for x in S)
RECURSIVE SumOver(_, _)
SumOver(f, S) ==
    IF S = {} THEN 0
    ELSE LET x == CHOOSE y \in S : TRUE
         IN f[x] + SumOver(f, S \ {x})

\* float('Inf'), the initial value of path_flow
Inf == -1

\* MinFlow with max() written for min()
MinFlowMax(a, b) == IF a = Inf THEN b ELSE IF a > b THEN a ELSE b

\* MinFlow that keeps the first residual capacity it sees
MinFlowKeepFirst(a, b) == IF a = Inf THEN b ELSE a

\* min(path_flow, residual_capacity) with path_flow possibly float('Inf')
MinFlow(a, b) == IF a = Inf THEN b ELSE IF a < b THEN a ELSE b

\* capacity_matrix[u][v] - flow_matrix[u][v]
Residual(cap, flow, u, v) == cap[u][v] - flow[u][v]

(* ---- bfs ---- *)

\* CanVisit with residual_capacity > 1 written for > 0
CanVisitAboveOne(cap, flow, visited, u, v) ==
    v \notin visited /\ cap[u][v] - flow[u][v] > 1

\* CanVisit with residual_capacity >= 0 written for > 0
CanVisitNonNegative(cap, flow, visited, u, v) ==
    v \notin visited /\ cap[u][v] - flow[u][v] >= 0

\* the test of the inner loop of bfs: unvisited and positive residual
CanVisit(cap, flow, visited, u, v) ==
    v \notin visited /\ Residual(cap, flow, u, v) > 0

\* the first element taken from the queue by popleft()
PopLeft(queue) == Head(queue)

\* BfsStart without visited[source] = True
BfsStartSourceUnvisited(src, par) ==
    [queue |-> <<src>>, visited |-> {}, parent |-> par, found |-> FALSE]

\* visited = [False] * num_nodes; queue = deque([source]); visited[source] = True
BfsStart(src, par) ==
    [queue |-> <<src>>, visited |-> {src}, parent |-> par, found |-> FALSE]

\* for neighbor in range(num_nodes): ... (one node's scan, from neighbor v on)
RECURSIVE ScanNeighbors(_, _, _, _, _, _)
ScanNeighbors(cap, flow, snk, u, v, st) ==
    IF v >= NumNodes(cap) THEN st
    ELSE IF CanVisit(cap, flow, st.visited, u, v)
         THEN LET st2 == [st EXCEPT !.parent[v] = u,
                                    !.visited = @ \cup {v}]
              IN IF v = snk
                 THEN [st2 EXCEPT !.found = TRUE]
                 ELSE ScanNeighbors(cap, flow, snk, u, v + 1,
                                    [st2 EXCEPT !.queue = Append(@, v)])
         ELSE ScanNeighbors(cap, flow, snk, u, v + 1, st)

\* while queue: current_node = queue.popleft(); ...
RECURSIVE BfsLoop(_, _, _, _)
BfsLoop(cap, flow, snk, st) ==
    IF st.found \/ st.queue = <<>> THEN st
    ELSE BfsLoop(cap, flow, snk,
                 ScanNeighbors(cap, flow, snk, PopLeft(st.queue), 0,
                               [st EXCEPT !.queue = Tail(@)]))

\* bfs(capacity_matrix, flow_matrix, source, sink, parent):
\* .found is the returned bool, .parent the parent list as bfs leaves it
bfs(cap, flow, src, snk, par) == BfsLoop(cap, flow, snk, BfsStart(src, par))

(* ---- the loop body of edmonds_karp ---- *)

\* the walk from sink back to source: the bottleneck and the path (sink first)
RECURSIVE WalkBack(_, _, _, _, _, _)
WalkBack(cap, flow, par, src, cur, acc) ==
    IF cur = src THEN acc
    ELSE LET prev == par[cur]
         IN WalkBack(cap, flow, par, src, prev,
                     [path_flow |-> MinFlow(acc.path_flow,
                                            Residual(cap, flow, prev, cur)),
                      path |-> Append(acc.path, prev)])

\* path.reverse()
Reverse(s) == [k \in 1 .. Len(s) |-> s[Len(s) + 1 - k]]

\* PushFlow without the update of the reverse entry
PushFlowForwardOnly(flow, prev, cur, amount) ==
    [flow EXCEPT ![prev][cur] = @ + amount]

\* PushFlow that takes the amount off the reverse entry twice
PushFlowTwiceBack(flow, prev, cur, amount) ==
    LET f1 == [flow EXCEPT ![prev][cur] = @ + amount]
    IN [f1 EXCEPT ![cur][prev] = @ - 2 * amount]

\* flow_matrix[previous_node][current_node] += path_flow
\* flow_matrix[current_node][previous_node] -= path_flow
PushFlow(flow, prev, cur, amount) ==
    LET f1 == [flow EXCEPT ![prev][cur] = @ + amount]
    IN [f1 EXCEPT ![cur][prev] = @ - amount]

\* {'path': path, 'flow': path_flow}
PathRecord(p, f) == [path |-> p, flow |-> f]

(* ---- the inputs explored ---- *)

\* capacity matrices on n nodes with zero diagonal and at most e positive
\* entries, each at most MaxCap
BoundedMatrices(n, e) ==
    { [i \in Range(n) |-> [j \in Range(n) |->
          IF <<i, j>> \in DOMAIN c THEN c[<<i, j>>] ELSE 0]] :
      c \in UNION { [E -> 1 .. MaxCap] :
                    E \in { S \in SUBSET { p \in Range(n) \X Range(n) :
                                               p[1] # p[2] } :
                            Cardinality(S) <= e } } }

\* all capacity matrices on 2 nodes, diagonal included, entries at most MaxCap
TwoNodeMatrices == [Range(2) -> [Range(2) -> 0 .. MaxCap]]

\* the 4-node diamond: S=0, A=1, B=2, T=3
DiamondCapacity ==
    [i \in Range(4) |-> [j \in Range(4) |->
        CASE <<i, j>> = <<0, 1>> -> 10
          [] <<i, j>> = <<0, 2>> -> 5
          [] <<i, j>> = <<1, 3>> -> 5
          [] <<i, j>> = <<2, 3>> -> 10
          [] OTHER -> 0]]

\* a 6-node graph whose second shortest augmenting path cancels flow
\* pushed by the first: 0-1-2-5, then 0-3-2-1-4-5 over the back edge 2->1
CancelEdges == {<<0, 1>>, <<1, 2>>, <<2, 5>>, <<0, 3>>, <<3, 2>>, <<1, 4>>, <<4, 5>>}
CancelCapacity ==
    [i \in Range(6) |-> [j \in Range(6) |->
        IF <<i, j>> \in CancelEdges THEN 1 ELSE 0]]

\* lines 69-73 of edmonds_karp: the state on entry to the while loop
Call(cap, src, snk) ==
    /\ capacity_matrix = cap
    /\ source = src
    /\ sink = snk
    /\ flow_matrix = ZeroMatrix(NumNodes(cap))
    /\ parent = [i \in Range(NumNodes(cap)) |-> -1]
    /\ max_flow = 0
    /\ path_history = <<>>
    /\ path_flow = Inf
    /\ path = <<>>
    /\ current_node = snk
    /\ pc = "SEARCHING"
    /\ stage = "bfs"

\* edmonds_karp called directly: no earlier call, main() not running
DirectCall ==
    /\ baseline = <<>>
    /\ main_pc = "none"
    /\ main_i = 0
    /\ extended_capacity = <<>>
    /\ original_flow_matrix = <<>>
    /\ analysis = <<>>

InitBounded ==
    \E n \in 1 .. MaxNodes : \E cap \in BoundedMatrices(n, MaxEdges) :
        \E src, snk \in Range(n) : Call(cap, src, snk) /\ DirectCall

InitDiamond ==
    \E src, snk \in Range(4) : Call(DiamondCapacity, src, snk) /\ DirectCall

InitCancel == Call(CancelCapacity, 0, 5) /\ DirectCall

InitTwoNodes ==
    \E cap \in TwoNodeMatrices :
        \E src, snk \in Range(2) : Call(cap, src, snk) /\ DirectCall

Init == InitBounded \/ InitTwoNodes \/ InitDiamond \/ InitCancel

(* ---- the steps of edmonds_karp ---- *)

\* while bfs(...): the call returns True
BfsFound ==
    /\ pc = "SEARCHING"
    /\ LET r == bfs(capacity_matrix, flow_matrix, source, sink, parent)
       IN /\ r.found
          /\ parent' = r.parent
    /\ pc' = "AUGMENTING"
    /\ stage' = "bottleneck"
    /\ UNCHANGED <<capacity_matrix, source, sink, flow_matrix, max_flow,
                   path_history, path_flow, path, current_node>>
    /\ UNCHANGED callerVars

\* while bfs(...): the call returns False, the function returns
BfsNotFound ==
    /\ pc = "SEARCHING"
    /\ LET r == bfs(capacity_matrix, flow_matrix, source, sink, parent)
       IN /\ ~r.found
          /\ parent' = r.parent
    /\ pc' = "DONE"
    /\ stage' = "return"
    /\ UNCHANGED <<capacity_matrix, source, sink, flow_matrix, max_flow,
                   path_history, path_flow, path, current_node>>
    /\ UNCHANGED callerVars

\* lines 77-91: the bottleneck and the path, current_node reset to sink
FindBottleneck ==
    /\ pc = "AUGMENTING" /\ stage = "bottleneck"
    /\ LET w == WalkBack(capacity_matrix, flow_matrix, parent, source, sink,
                         [path_flow |-> Inf, path |-> <<sink>>])
       IN /\ path_flow' = w.path_flow
          /\ path' = Reverse(w.path)
    /\ current_node' = sink
    /\ stage' = "update"
    /\ UNCHANGED <<capacity_matrix, source, sink, flow_matrix, parent,
                   max_flow, path_history, pc>>
    /\ UNCHANGED callerVars

\* UpdateEdge that leaves the loop after its first iteration
UpdateEdgeOnce ==
    /\ pc = "AUGMENTING" /\ stage = "update"
    /\ current_node # source
    /\ flow_matrix' = [flow_matrix EXCEPT
                          ![parent[current_node]][current_node] = @ + path_flow,
                          ![current_node][parent[current_node]] = @ - path_flow]
    /\ current_node' = source
    /\ UNCHANGED <<capacity_matrix, source, sink, parent, max_flow,
                   path_history, path_flow, path, pc, stage>>
    /\ UNCHANGED callerVars

\* lines 92-96: one iteration of the update loop
UpdateEdge ==
    /\ pc = "AUGMENTING" /\ stage = "update"
    /\ current_node # source
    /\ LET previous_node == parent[current_node]
       IN /\ flow_matrix' = PushFlow(flow_matrix, previous_node,
                                     current_node, path_flow)
          /\ current_node' = previous_node
    /\ UNCHANGED <<capacity_matrix, source, sink, parent, max_flow,
                   path_history, path_flow, path, pc, stage>>
    /\ UNCHANGED callerVars

\* lines 99-105: the update loop is over; record the path, add to max_flow
RecordPath ==
    /\ pc = "AUGMENTING" /\ stage = "update"
    /\ current_node = source
    /\ path_history' = Append(path_history, PathRecord(path, path_flow))
    /\ max_flow' = max_flow + path_flow
    /\ pc' = "SEARCHING"
    /\ stage' = "bfs"
    /\ UNCHANGED <<capacity_matrix, source, sink, flow_matrix, parent,
                   path_flow, path, current_node>>
    /\ UNCHANGED callerVars

Next == BfsFound \/ BfsNotFound \/ FindBottleneck \/ UpdateEdge \/ RecordPath

Spec == Init /\ [][Next]_vars

(* ---- a second call on an increased capacity ---- *)

\* lines 69-73 of edmonds_karp, as the step that enters a call
Enter(cap, src, snk) ==
    /\ capacity_matrix' = cap
    /\ source' = src
    /\ sink' = snk
    /\ flow_matrix' = ZeroMatrix(NumNodes(cap))
    /\ parent' = [i \in Range(NumNodes(cap)) |-> -1]
    /\ max_flow' = 0
    /\ path_history' = <<>>
    /\ path_flow' = Inf
    /\ path' = <<>>
    /\ current_node' = snk
    /\ pc' = "SEARCHING"
    /\ stage' = "bfs"

\* the matrix cap with cap[i][j] increased by d
Increased(cap, i, j, d) == [cap EXCEPT ![i][j] = @ + d]

\* a 6-node graph that becomes CancelCapacity when edge 1->2 gains capacity 1
PreCancelCapacity == [CancelCapacity EXCEPT ![1][2] = 0]

\* the first call has returned; edmonds_karp is called again with one entry
\* of the capacity matrix increased, same source and sink
Rerun ==
    /\ pc = "DONE"
    /\ baseline = <<>>
    /\ \E i, j \in DOMAIN capacity_matrix : \E d \in 1 .. MaxIncrease :
          /\ Enter(Increased(capacity_matrix, i, j, d), source, sink)
          /\ baseline' = [max_flow |-> max_flow, i |-> i, j |-> j, d |-> d]
    /\ UNCHANGED mainVars

InitMono ==
    \/ \E n \in 1 .. MaxNodes : \E cap \in BoundedMatrices(n, MonoMaxEdges) :
          \E src, snk \in Range(n) : Call(cap, src, snk) /\ DirectCall
    \/ InitTwoNodes
    \/ Call(PreCancelCapacity, 0, 5) /\ DirectCall

MonoNext == Next \/ Rerun

SpecMono == InitMono /\ [][MonoNext]_vars

(* ---- build_logistics_network ---- *)

\* the node names; the source has them in Ukrainian ("Термінал", "Склад",
\* "Магазин")
terminals == <<"Terminal 1", "Terminal 2">>
warehouses == <<"Warehouse 1", "Warehouse 2", "Warehouse 3", "Warehouse 4">>
stores == <<"Store 1", "Store 2", "Store 3", "Store 4", "Store 5", "Store 6",
            "Store 7", "Store 8", "Store 9", "Store 10", "Store 11",
            "Store 12", "Store 13", "Store 14">>

nodes == terminals \o warehouses \o stores

\* {node: i for i, node in enumerate(nodes)}
node_indices ==
    [name \in { nodes[k] : k \in 1 .. Len(nodes) } |->
        (CHOOSE k \in 1 .. Len(nodes) : nodes[k] = name) - 1]

edges == <<
    <<"Terminal 1", "Warehouse 1", 25>>,
    <<"Terminal 1", "Warehouse 2", 20>>,
    <<"Terminal 1", "Warehouse 3", 15>>,
    <<"Terminal 2", "Warehouse 3", 15>>,
    <<"Terminal 2", "Warehouse 4", 30>>,
    <<"Terminal 2", "Warehouse 2", 10>>,
    <<"Warehouse 1", "Store 1", 15>>,
    <<"Warehouse 1", "Store 2", 10>>,
    <<"Warehouse 1", "Store 3", 20>>,
    <<"Warehouse 2", "Store 4", 15>>,
    <<"Warehouse 2", "Store 5", 10>>,
    <<"Warehouse 2", "Store 6", 25>>,
    <<"Warehouse 3", "Store 7", 20>>,
    <<"Warehouse 3", "Store 8", 15>>,
    <<"Warehouse 3", "Store 9", 10>>,
    <<"Warehouse 4", "Store 10", 20>>,
    <<"Warehouse 4", "Store 11", 10>>,
    <<"Warehouse 4", "Store 12", 15>>,
    <<"Warehouse 4", "Store 13", 5>>,
    <<"Warehouse 4", "Store 14", 10>> >>

\* for from_node, to_node, capacity in edges: capacity_matrix[..][..] = capacity
\* (the edges from the k-th on, written into m)
RECURSIVE FillCapacity(_, _)
FillCapacity(m, k) ==
    IF k > Len(edges) THEN m
    ELSE FillCapacity(
             [m EXCEPT ![node_indices[edges[k][1]]][node_indices[edges[k][2]]]
                           = edges[k][3]],
             k + 1)

\* the capacity matrix build_logistics_network returns
NetworkCapacity == FillCapacity(ZeroMatrix(Len(nodes)), 1)

(* ---- analyze_network ---- *)

\* the pairs (i, j) in the order of the two nested loops over range(n)
PairsInOrder(n) == [k \in 1 .. n * n |-> <<(k - 1) \div n, (k - 1) % n>>]

\* the bottlenecks list: edges whose flow equals their capacity
Bottlenecks(cap, flow) ==
    LET sat == SelectSeq(PairsInOrder(Len(nodes)),
                         LAMBDA e : /\ cap[e[1]][e[2]] > 0
                                    /\ flow[e[1]][e[2]] = cap[e[1]][e[2]])
    IN [k \in 1 .. Len(sat) |->
           <<nodes[sat[k][1] + 1], nodes[sat[k][2] + 1], cap[sat[k][1]][sat[k][2]]>>]

\* terminal_outflows: sum(flow_matrix[t_idx]) for each terminal
TerminalOutflows(flow) ==
    [t \in { terminals[k] : k \in 1 .. Len(terminals) } |->
        SumOver(flow[node_indices[t]], DOMAIN flow[node_indices[t]])]

\* the inflow of store s: sum(flow_matrix[i][s_idx] for i in range(len(nodes)))
StoreInflow(flow, s) ==
    SumOver([i \in Range(Len(nodes)) |-> flow[i][node_indices[s]]],
            Range(Len(nodes)))

\* sorted(..., key=lambda item: item[1]) is stable: item x goes after the
\* items of sorted sequence sq whose key is at most its own
InsertByInflow(sq, x) ==
    LET before == SelectSeq(sq, LAMBDA y : y[2] <= x[2])
        after == SelectSeq(sq, LAMBDA y : y[2] > x[2])
    IN before \o <<x>> \o after

\* store_inflows, as the sequence of (store, inflow) in the order of the
\* sorted dictionary (the first k stores)
RECURSIVE StoreInflows(_, _)
StoreInflows(flow, k) ==
    IF k = 0 THEN <<>>
    ELSE InsertByInflow(StoreInflows(flow, k - 1),
                        <<stores[k], StoreInflow(flow, stores[k])>>)

\* round(num / den) of Python 3 for den > 0, taken on the exact quotient:
\* to the nearest integer, halves to the even one
RoundHalfEven(num, den) ==
    LET q == num \div den
        r == num % den
    IN IF 2 * r < den THEN q
       ELSE IF 2 * r > den THEN q + 1
       ELSE IF q % 2 = 0 THEN q ELSE q + 1

\* round(flow / capacity * 100) if capacity > 0 else 0
Utilization(flow, capacity) ==
    IF capacity > 0 THEN RoundHalfEven(flow * 100, capacity) ELSE 0

\* the warehouse_utilization entry of warehouse w
WarehouseUtilization(cap, flow, w) ==
    LET w_idx == node_indices[w]
        others == Range(Len(nodes)) \ {w_idx}
        inflow == SumOver([i \in others |-> flow[i][w_idx]], others)
        outflow == SumOver([j \in others |-> flow[w_idx][j]], others)
        total_in_capacity == SumOver([i \in others |-> cap[i][w_idx]], others)
        total_out_capacity == SumOver([j \in others |-> cap[w_idx][j]], others)
    IN [inflow |-> inflow,
        outflow |-> outflow,
        in_capacity |-> total_in_capacity,
        out_capacity |-> total_out_capacity,
        in_utilization |-> Utilization(inflow, total_in_capacity),
        out_utilization |-> Utilization(outflow, total_out_capacity)]

(* ---- main() of task1.py ---- *)

\* n = len(nodes); super_source = n; super_sink = n + 1
super_source == Len(nodes)
super_sink == Len(nodes) + 1

\* the capacity given to the edges of the super source and the super sink
SuperCapacity == 100

\* edmonds_karp is not called yet
NotCalled ==
    /\ capacity_matrix = <<>>
    /\ source = 0
    /\ sink = 0
    /\ flow_matrix = <<>>
    /\ parent = <<>>
    /\ max_flow = 0
    /\ path_history = <<>>
    /\ path_flow = Inf
    /\ path = <<>>
    /\ current_node = 0
    /\ pc = "NOT_CALLED"
    /\ stage = "none"

\* lines 26-37: the network is built and extended_capacity is all zero
InitMain ==
    /\ NotCalled
    /\ baseline = <<>>
    /\ main_pc = "copy"
    /\ main_i = 0
    /\ extended_capacity = ZeroMatrix(Len(nodes) + 2)
    /\ original_flow_matrix = <<>>
    /\ analysis = <<>>

\* CopyCapacity with the two indices of the source entry exchanged
CopyCapacityTransposed ==
    /\ main_pc = "copy"
    /\ extended_capacity' =
           [i \in DOMAIN extended_capacity |->
               [j \in DOMAIN extended_capacity |->
                   IF i < Len(nodes) /\ j < Len(nodes)
                   THEN NetworkCapacity[j][i]
                   ELSE extended_capacity[i][j]]]
    /\ main_pc' = "sources"
    /\ main_i' = 1
    /\ UNCHANGED <<ekVars, baseline, original_flow_matrix, analysis>>

\* lines 40-42: copy the original capacity matrix
CopyCapacity ==
    /\ main_pc = "copy"
    /\ extended_capacity' =
           [i \in DOMAIN extended_capacity |->
               [j \in DOMAIN extended_capacity |->
                   IF i < Len(nodes) /\ j < Len(nodes)
                   THEN NetworkCapacity[i][j]
                   ELSE extended_capacity[i][j]]]
    /\ main_pc' = "sources"
    /\ main_i' = 1
    /\ UNCHANGED <<ekVars, baseline, original_flow_matrix, analysis>>

\* lines 45-47: one iteration of the loop over the terminals
ConnectSource ==
    /\ main_pc = "sources"
    /\ LET t_idx == node_indices[terminals[main_i]]
       IN extended_capacity' =
              [extended_capacity EXCEPT ![super_source][t_idx] = SuperCapacity]
    /\ IF main_i < Len(terminals)
       THEN main_i' = main_i + 1 /\ main_pc' = main_pc
       ELSE main_i' = 1 /\ main_pc' = "sinks"
    /\ UNCHANGED <<ekVars, baseline, original_flow_matrix, analysis>>

\* lines 50-52: one iteration of the loop over the stores
ConnectSink ==
    /\ main_pc = "sinks"
    /\ LET s_idx == node_indices[stores[main_i]]
       IN extended_capacity' =
              [extended_capacity EXCEPT ![s_idx][super_sink] = SuperCapacity]
    /\ IF main_i < Len(stores)
       THEN main_i' = main_i + 1 /\ main_pc' = main_pc
       ELSE main_i' = 0 /\ main_pc' = "solve"
    /\ UNCHANGED <<ekVars, baseline, original_flow_matrix, analysis>>

\* line 55: edmonds_karp(extended_capacity, super_source, super_sink) is entered
CallSolver ==
    /\ main_pc = "solve"
    /\ Enter(extended_capacity, super_source, super_sink)
    /\ main_pc' = "solving"
    /\ UNCHANGED <<baseline, main_i, extended_capacity, original_flow_matrix,
                   analysis>>

\* Trim that keeps the rows and columns of the super source and super sink
TrimNothing ==
    /\ main_pc = "solving" /\ pc = "DONE"
    /\ original_flow_matrix' = flow_matrix
    /\ main_pc' = "analyze"
    /\ UNCHANGED <<ekVars, baseline, main_i, extended_capacity, analysis>>

\* line 58: the call has returned; trim the flow matrix to the original size
Trim ==
    /\ main_pc = "solving" /\ pc = "DONE"
    /\ original_flow_matrix' =
           [i \in Range(Len(nodes)) |->
               [j \in Range(Len(nodes)) |-> flow_matrix[i][j]]]
    /\ main_pc' = "analyze"
    /\ UNCHANGED <<ekVars, baseline, main_i, extended_capacity, analysis>>

\* analyze_network lines 146-174: bottlenecks, terminal outflows, store inflows
AnalyzeFlows ==
    /\ main_pc = "analyze"
    /\ analysis' =
           [bottlenecks |-> Bottlenecks(NetworkCapacity, original_flow_matrix),
            terminal_outflows |-> TerminalOutflows(original_flow_matrix),
            store_inflows |-> StoreInflows(original_flow_matrix, Len(stores)),
            warehouse_utilization |-> <<>>,
            paths |-> <<>>]
    /\ main_pc' = "warehouses"
    /\ main_i' = 1
    /\ UNCHANGED <<ekVars, baseline, extended_capacity, original_flow_matrix>>

\* analyze_network lines 178-198: one iteration of the loop over the
\* warehouses; after the last, lines 200-205 store the result and return
AnalyzeWarehouse ==
    /\ main_pc = "warehouses"
    /\ LET w == warehouses[main_i]
           entry == w :> WarehouseUtilization(NetworkCapacity,
                                              original_flow_matrix, w)
       IN analysis' =
              [analysis EXCEPT
                  !.warehouse_utilization = @ @@ entry,
                  !.paths = IF main_i < Len(warehouses) THEN @ ELSE path_history]
    /\ IF main_i < Len(warehouses)
       THEN main_i' = main_i + 1 /\ main_pc' = main_pc
       ELSE main_i' = 0 /\ main_pc' = "report"
    /\ UNCHANGED <<ekVars, baseline, extended_capacity, original_flow_matrix>>

MainNext ==
    \/ CopyCapacity \/ ConnectSource \/ ConnectSink \/ CallSolver
    \/ Next
    \/ Trim \/ AnalyzeFlows \/ AnalyzeWarehouse

SpecMain == InitMain /\ [][MainNext]_vars

(* ---- fairness: a call runs to completion, synchronously ---- *)
InitLive ==
    \/ \E n \in 1 .. MaxNodes : \E cap \in BoundedMatrices(n, LiveMaxEdges) :
           \E src, snk \in Range(n) : Call(cap, src, snk) /\ DirectCall
    \/ InitTwoNodes
    \/ InitDiamond
    \/ InitCancel

FairSpec == InitLive /\ [][Next]_vars /\ WF_vars(Next)

(***************************************************************************)
(* Properties                                                              *)
(***************************************************************************)

Nodes == DOMAIN capacity_matrix

\* the capacity of the cut (S, Nodes \ S)
CutCapacity(S) ==
    SumOver([e \in S \X (Nodes \ S) |-> capacity_matrix[e[1]][e[2]]],
            S \X (Nodes \ S))

\* the cuts separating source from sink
Cuts == { S \cup {source} : S \in SUBSET (Nodes \ {source, sink}) }

MinCut ==
    LET caps == { CutCapacity(S) : S \in Cuts }
    IN CHOOSE c \in caps : \A x \in caps : c <= x

\* C1: for source # sink, the returned max_flow equals the capacity of a
\* minimum cut separating source from sink
C1_MaxFlowIsMinCut ==
    (pc = "DONE" /\ source # sink) => max_flow = MinCut

\* a run that returned after at least two augmentations
C1_Witness ==
    /\ pc = "DONE" /\ source # sink
    /\ Len(path_history) >= 2
    /\ max_flow = MinCut
    /\ max_flow >= 3

\* the flow matrix of a returned call
Returned == pc = "DONE"

\* C2 (as stated): at termination 0 <= flow[i][j] <= capacity[i][j] on every
\* edge with capacity[i][j] > 0, also when capacity[j][i] > 0
C2_EdgeFlowWithinZeroAndCapacity ==
    Returned =>
        \A i, j \in Nodes :
            capacity_matrix[i][j] > 0 =>
                /\ 0 <= flow_matrix[i][j]
                /\ flow_matrix[i][j] <= capacity_matrix[i][j]

\* C2 (amended): at termination, on every edge with capacity[i][j] > 0,
\* -capacity[j][i] <= flow[i][j] <= capacity[i][j]; the lower bound is 0
\* exactly when there is no opposite edge
C2_EdgeFlowWithinNetBounds ==
    Returned =>
        \A i, j \in Nodes :
            capacity_matrix[i][j] > 0 =>
                /\ flow_matrix[i][j] <= capacity_matrix[i][j]
                /\ capacity_matrix[j][i] = 0 => 0 <= flow_matrix[i][j]
                /\ capacity_matrix[j][i] > 0 =>
                       - capacity_matrix[j][i] <= flow_matrix[i][j]

\* a returned call that left a negative entry on an edge of a two-way pair
C2_Witness ==
    /\ Returned
    /\ \E i, j \in Nodes :
          /\ capacity_matrix[i][j] > 0 /\ capacity_matrix[j][i] > 0
          /\ flow_matrix[i][j] < 0

\* C3 (as stated): at termination 0 <= flow[i][j] <= capacity[i][j] for all
\* ordered pairs, also where capacity[i][j] = 0
C3_FlowNonNegativeEverywhere ==
    Returned =>
        \A i, j \in Nodes :
            0 <= flow_matrix[i][j] /\ flow_matrix[i][j] <= capacity_matrix[i][j]

\* C3 (amended): at termination, for all ordered pairs,
\* -capacity[j][i] <= flow[i][j] <= capacity[i][j]
C3_FlowWithinSkewBounds ==
    Returned =>
        \A i, j \in Nodes :
            /\ - capacity_matrix[j][i] <= flow_matrix[i][j]
            /\ flow_matrix[i][j] <= capacity_matrix[i][j]

\* a returned call with a negative entry where there is no edge
C3_Witness ==
    /\ Returned
    /\ \E i, j \in Nodes :
          capacity_matrix[i][j] = 0 /\ flow_matrix[i][j] < 0

\* the sum of the positive entries of column v / of row v
PositiveInflow(v) ==
    SumOver([i \in Nodes |-> IF flow_matrix[i][v] > 0
                             THEN flow_matrix[i][v] ELSE 0], Nodes)
PositiveOutflow(v) ==
    SumOver([j \in Nodes |-> IF flow_matrix[v][j] > 0
                             THEN flow_matrix[v][j] ELSE 0], Nodes)

\* no augmentation is under way: before the first, between two, or after the
\* last
BetweenAugmentations == pc \in {"SEARCHING", "DONE"}

\* C4: after every completed augmentation and at termination, every node
\* other than source and sink has equal positive inflow and positive outflow
C4_FlowConservation ==
    BetweenAugmentations =>
        \A v \in Nodes \ {source, sink} : PositiveInflow(v) = PositiveOutflow(v)

\* an augmentation through an intermediate node has completed
C4_Witness ==
    /\ BetweenAugmentations
    /\ path_history # <<>>
    /\ \E v \in Nodes \ {source, sink} : PositiveInflow(v) > 0

\* (u, v) is an edge of the residual graph of the current flow
ResidualEdge(u, v) == capacity_matrix[u][v] - flow_matrix[u][v] > 0

\* the nodes reachable from the set S in the residual graph
RECURSIVE ReachFrom(_)
ReachFrom(S) ==
    LET T == S \cup { v \in Nodes : \E u \in S : ResidualEdge(u, v) }
    IN IF T = S THEN S ELSE ReachFrom(T)

AugmentingPathExists == sink \in ReachFrom({source})

\* the transitions of the solver's state machine
SolverTransition ==
    \/ pc = "SEARCHING" /\ pc' \in {"AUGMENTING", "DONE"}
    \/ pc = "AUGMENTING" /\ pc' = "SEARCHING"

\* C5: every call terminates; it has terminated only if the residual graph
\* has no source-to-sink path; the state changes only SEARCHING ->
\* AUGMENTING -> SEARCHING and SEARCHING -> DONE; and each completed
\* iteration adds its bottleneck, an integer >= 1, to max_flow, which
\* nothing else changes
C5_TerminatesOnlyWhenNoPath ==
    /\ <>(pc = "DONE")
    /\ []((pc = "DONE" /\ source # sink) => ~AugmentingPathExists)
    /\ [][ /\ pc' # pc => SolverTransition
           /\ (pc = "AUGMENTING" /\ pc' = "SEARCHING") =>
                  (path_flow >= 1 /\ max_flow' = max_flow + path_flow)
           /\ ~(pc = "AUGMENTING" /\ pc' = "SEARCHING") =>
                  max_flow' = max_flow ]_vars

\* a call that returned after several iterations, each with bottleneck >= 1
C5_Witness ==
    /\ pc = "DONE" /\ source # sink
    /\ Len(path_history) >= 2
    /\ \A k \in 1 .. Len(path_history) : path_history[k].flow >= 1
    /\ ~AugmentingPathExists

\* C6 (as stated): a call with source = sink ends in an error and returns no
\* (max_flow, flow_matrix, path_history)
C6_SameSourceSinkNeverReturns == source = sink => pc # "DONE"

\* C6 (amended): a call with source = sink is not rejected; it never
\* augments and its result is (0, the zero matrix, the empty history)
C6_SameSourceSinkReturnsZeroFlow ==
    source = sink =>
        /\ pc \in {"SEARCHING", "DONE"}
        /\ max_flow = 0
        /\ flow_matrix = [i \in Nodes |-> [j \in Nodes |-> 0]]
        /\ path_history = <<>>

\* a returned call with source = sink on a graph with an edge out of source
C6_Witness ==
    /\ source = sink /\ pc = "DONE"
    /\ \E j \in Nodes : capacity_matrix[source][j] > 0
    /\ max_flow = 0 /\ path_history = <<>>

\* C9: on the diamond S->A (10), S->B (5), A->T (5), B->T (10) the solver
\* returns max flow 10 from S to T
C9_DiamondMaxFlow ==
    (capacity_matrix = DiamondCapacity /\ source = 0 /\ sink = 3 /\ pc = "DONE")
        => max_flow = 10

\* the diamond solved from S to T in two augmentations of 5
C9_Witness ==
    /\ capacity_matrix = DiamondCapacity /\ source = 0 /\ sink = 3
    /\ pc = "DONE"
    /\ Len(path_history) = 2
    /\ max_flow = 10

\* the number of edges of a shortest residual path to sink from the frontier,
\* d edges away from source; -1 when there is none
RECURSIVE DistToSink(_, _, _)
DistToSink(frontier, seen, d) ==
    IF sink \in frontier THEN d
    ELSE IF frontier = {} THEN -1
    ELSE LET next == { v \in Nodes \ seen :
                           \E u \in frontier : ResidualEdge(u, v) }
         IN DistToSink(next, seen \cup next, d + 1)

ShortestAugmentingLength == DistToSink({source}, {source}, 0)

\* p is a simple source-to-sink path of residual edges
IsAugmentingPath(p) ==
    /\ Len(p) >= 2
    /\ p[1] = source /\ p[Len(p)] = sink
    /\ \A k, l \in 1 .. Len(p) : k # l => p[k] # p[l]
    /\ \A k \in 1 .. (Len(p) - 1) : ResidualEdge(p[k], p[k + 1])

\* the least residual capacity over the edges of p
Bottleneck(p) ==
    LET r == { capacity_matrix[p[k]][p[k + 1]] - flow_matrix[p[k]][p[k + 1]] :
               k \in 1 .. (Len(p) - 1) }
    IN CHOOSE m \in r : \A x \in r : m <= x

\* the path and bottleneck are computed and no edge is updated yet
IterationStart ==
    pc = "AUGMENTING" /\ stage = "update" /\ current_node = sink

\* C10: the path of each iteration is a simple source-to-sink path of
\* residual edges of the flow at the start of the iteration, with the fewest
\* edges of any such path, and its flow is the least residual capacity on
\* it; that pair is what the iteration appends to the trace, after the
\* records of the earlier iterations
C10_TraceRecordsShortestPaths ==
    /\ [](IterationStart =>
            /\ IsAugmentingPath(path)
            /\ Len(path) - 1 = ShortestAugmentingLength
            /\ path_flow = Bottleneck(path))
    /\ [][ /\ (pc = "AUGMENTING" /\ stage = "update") =>
                  (path' = path /\ path_flow' = path_flow)
           /\ path_history' # path_history =>
                  path_history' =
                      Append(path_history, [path |-> path, flow |-> path_flow])
         ]_vars

\* a second record was appended, for a path of three edges
C10_Witness ==
    /\ pc = "SEARCHING"
    /\ Len(path_history) >= 2
    /\ path_history[Len(path_history)] = [path |-> path, flow |-> path_flow]
    /\ Len(path) >= 3

\* C7: a call on a capacity matrix with one entry increased by d > 0 returns
\* a max_flow at least that of the call on the original matrix, for the same
\* source and sink
C7_Monotonicity ==
    (pc = "DONE" /\ baseline # <<>>) => max_flow >= baseline.max_flow

\* the increase of one entry raised the maximum flow
C7_Witness ==
    /\ pc = "DONE" /\ baseline # <<>>
    /\ max_flow > baseline.max_flow

\* C8: in the utilization record of each warehouse h, inflow is the flow on
\* the edges into h, outflow the flow on the edges out of h, and
\* in_utilization is round(inflow / in_capacity * 100), 0 for in_capacity 0
C8_HubInflowIsFlowOnIncomingEdges ==
    main_pc = "report" =>
        \A k \in 1 .. Len(warehouses) :
            LET w == warehouses[k]
                h == node_indices[w]
                N == Range(Len(nodes))
                rec == analysis.warehouse_utilization[w]
                into == { i \in N : NetworkCapacity[i][h] > 0 }
                outof == { j \in N : NetworkCapacity[h][j] > 0 }
            IN /\ rec.inflow =
                      SumOver([i \in into |-> original_flow_matrix[i][h]], into)
               /\ rec.outflow =
                      SumOver([j \in outof |-> original_flow_matrix[h][j]], outof)
               /\ rec.in_utilization =
                      IF rec.in_capacity = 0 THEN 0
                      ELSE RoundHalfEven(rec.inflow * 100, rec.in_capacity)

\* C11: after every completed augmentation and at termination the flow
\* matrix is antisymmetric: flow[i][j] = -flow[j][i] for all ordered pairs,
\* also where capacity[j][i] = 0, and its diagonal is 0
C11_FlowAntisymmetric ==
    BetweenAugmentations =>
        \A i, j \in Nodes :
            /\ flow_matrix[i][j] = - flow_matrix[j][i]
            /\ flow_matrix[i][i] = 0

\* an augmentation has completed and left a nonzero entry where there is no
\* edge, opposite to an edge that carries flow
C11_Witness ==
    /\ pc = "SEARCHING"
    /\ path_history # <<>>
    /\ \E i, j \in Nodes :
          /\ capacity_matrix[j][i] = 0
          /\ flow_matrix[i][j] > 0
          /\ flow_matrix[j][i] = - flow_matrix[i][j]

\* main() has built the augmented matrix (lines 37-52 are done)
AugmentedBuilt ==
    main_pc \in {"solve", "solving", "analyze", "warehouses", "report"}

\* the indices of the terminals and of the stores
TerminalIndices == { node_indices[terminals[k]] : k \in 1 .. Len(terminals) }
StoreIndices == { node_indices[stores[k]] : k \in 1 .. Len(stores) }

\* the total capacity of the edges out of node i / into node j of the network
TotalOutCapacity(i) ==
    SumOver(NetworkCapacity[i], DOMAIN NetworkCapacity[i])
TotalInCapacity(j) ==
    SumOver([i \in DOMAIN NetworkCapacity |-> NetworkCapacity[i][j]],
            DOMAIN NetworkCapacity)

\* the edges of the super source and of the super sink in the augmented matrix
SuperEdges ==
    { e \in (DOMAIN extended_capacity) \X (DOMAIN extended_capacity) :
        /\ extended_capacity[e[1]][e[2]] > 0
        /\ \/ e[1] \in {super_source, super_sink}
           \/ e[2] \in {super_source, super_sink} }

\* C12: in the augmented matrix main() builds, every original entry is
\* copied unchanged, each super-source edge has capacity 100, at least the
\* total outgoing capacity of its terminal, each super-sink edge has capacity
\* 100, at least the total incoming capacity of its store, and when the
\* solver has returned no super edge carries flow equal to its capacity
C12_SuperEdgesNeverBottleneck ==
    AugmentedBuilt =>
        /\ \A i, j \in Range(Len(nodes)) :
               extended_capacity[i][j] = NetworkCapacity[i][j]
        /\ \A t \in TerminalIndices :
               /\ extended_capacity[super_source][t] = 100
               /\ extended_capacity[super_source][t] >= TotalOutCapacity(t)
        /\ \A s \in StoreIndices :
               /\ extended_capacity[s][super_sink] = 100
               /\ extended_capacity[s][super_sink] >= TotalInCapacity(s)
        /\ SuperEdges = (({super_source} \X TerminalIndices)
                            \cup (StoreIndices \X {super_sink}))
        /\ pc = "DONE" =>
               \A e \in SuperEdges :
                   flow_matrix[e[1]][e[2]] < extended_capacity[e[1]][e[2]]

\* the solver has returned to main() with flow on every super-source edge
C12_Witness ==
    /\ main_pc = "solving" /\ pc = "DONE"
    /\ \A t \in TerminalIndices : flow_matrix[super_source][t] > 0
    /\ \E s \in StoreIndices : flow_matrix[s][super_sink] > 0

\* the terminal -> warehouse edges of the network, as bottleneck entries
TerminalHubEdges ==
    { <<terminals[k], warehouses[l],
        NetworkCapacity[node_indices[terminals[k]]][node_indices[warehouses[l]]]>> :
      <<k, l>> \in { q \in (1 .. Len(terminals)) \X (1 .. Len(warehouses)) :
          NetworkCapacity[node_indices[terminals[q[1]]]]
                         [node_indices[warehouses[q[2]]]] > 0 } }

\* the sum of the capacities of the terminal -> warehouse edges
TerminalHubCapacity ==
    SumOver([e \in TerminalHubEdges |-> e[3]], TerminalHubEdges)

\* the sum of the per-terminal outflows / per-store inflows of the analysis
ReportedTerminalOutflow ==
    SumOver(analysis.terminal_outflows, DOMAIN analysis.terminal_outflows)
ReportedStoreInflow ==
    SumOver([k \in DOMAIN analysis.store_inflows |-> analysis.store_inflows[k][2]],
            DOMAIN analysis.store_inflows)

\* C13: the run of main() on the built-in network ends with max flow 115,
\* the sum of the capacities of the six terminal -> warehouse edges; the
\* reported terminal outflows sum to it, the reported store inflows sum to
\* it, and all six terminal -> warehouse edges are reported bottlenecks
C13_BuiltInNetworkMaxFlow ==
    main_pc = "report" =>
        /\ max_flow = 115
        /\ Len(terminals) = 2 /\ Len(warehouses) = 4 /\ Len(stores) = 14
        /\ Cardinality({ e \in (DOMAIN NetworkCapacity) \X (DOMAIN NetworkCapacity) :
               NetworkCapacity[e[1]][e[2]] > 0 }) = 20
        /\ Cardinality(TerminalHubEdges) = 6
        /\ TerminalHubCapacity = max_flow
        /\ ReportedTerminalOutflow = max_flow
        /\ Len(analysis.store_inflows) = Len(stores)
        /\ ReportedStoreInflow = max_flow
        /\ \A e \in TerminalHubEdges :
               \E k \in 1 .. Len(analysis.bottlenecks) :
                   analysis.bottlenecks[k] = e

\* main() has the finished analysis of a run with max flow 115
C13_Witness ==
    /\ main_pc = "report"
    /\ max_flow = 115
    /\ Len(analysis.bottlenecks) >= 6
    /\ DOMAIN analysis.warehouse_utilization =
           { warehouses[k] : k \in 1 .. Len(warehouses) }

====
